---------------------------- MODULE Spec2Model ----------------------------
(***************************************************************************)
(* Model of the Social Network resilience demo:                            *)
(*   - gate.py      (release gate over a directory of result documents,    *)
(*                   and its command line)                                 *)
(*   - simulate.py  (offline reliability simulator)                        *)
(*   - dependency_collect.py  (workload, cooldown, fetch, save)            *)
(*                                                                         *)
(* Numbers.  Reliabilities, thresholds and failure probabilities of the    *)
(* gate are exact rationals written in tenths (9 stands for 0.9); a mean   *)
(* is kept as the pair <<sum, count>> and compared by cross               *)
(* multiplication.  Floating point rounding is not modelled.               *)
(***************************************************************************)
EXTENDS Integers, Sequences, FiniteSets, TLC

VARIABLES
    dir,     \* gate: the results directory, file index -> JSON document
    gargs,   \* gate: the arguments of evaluate_gate
    gres,    \* gate: outcome of evaluate_gate (none / returned / raised)
    fs,      \* simulate: the graph, replica overlay and output files
    fs0,     \* simulate: the files as they were when the run started
    env,     \* simulate: os.environ (JAEGER_URL, "" when unset)
    net,     \* simulate: what the trace collector answers to a request
    sargs,   \* simulate: the arguments of run_simulation
    spc,     \* simulate: position inside run_simulation
    loc,     \* simulate: local variables of run_simulation
    slog,    \* simulate: file and network operations performed, in order
    sres,    \* simulate: the payload run_simulation returns
    rin,     \* reliability model: the arguments of _service_reliability
    rout,    \* reliability model: the values it returned
    pin,     \* path model: the arguments of _path_reliability
    pout,    \* path model: the values it returned
    argv,    \* gate CLI: the command line of gate.py
    gexit,   \* gate CLI: how main ended (none / 0 / 1 / raised)
    gsummary,\* gate CLI: the summary file main wrote (Absent when none)
    cin,     \* collector: command line and outside world of the run
    cpc,     \* collector: position inside dependency_collect.main
    clog,    \* collector: the steps attempted, in order
    cfile    \* collector: the output graph file (Absent when not written)

gatevars == <<dir, gargs, gres>>

simvars == <<fs, fs0, env, net, sargs, spc, loc, slog, sres>>

relvars == <<rin, rout>>

pathvars == <<pin, pout>>

mainvars == <<argv, gexit, gsummary>>

collectvars == <<cin, cpc, clog, cfile>>

vars == <<dir, gargs, gres, fs, fs0, env, net, sargs, spc, loc, slog, sres,
          rin, rout, pin, pout, argv, gexit, gsummary, cin, cpc, clog,
          cfile>>

-----------------------------------------------------------------------------
(* Generic helpers                                                          *)

Range(s) == {s[i] : i \in 1..Len(s)}

RECURSIVE SortedSeq(_)
\* sorted(...) over a set of integers: ascending sequence
SortedSeq(S) ==
    IF S = {} THEN <<>>
    ELSE LET m == CHOOSE x \in S : \A y \in S : x <= y
         IN  <<m>> \o SortedSeq(S \ {m})

Min(S) == CHOOSE x \in S : \A y \in S : x <= y

RECURSIVE SumSeq(_)
SumSeq(s) == IF s = <<>> THEN 0 ELSE Head(s) + SumSeq(Tail(s))

RECURSIVE GCD(_, _)
GCD(a, b) == IF b = 0 THEN a ELSE GCD(b, a % b)

RECURSIVE Pow(_, _)
Pow(b, e) == IF e = 0 THEN 1 ELSE b * Pow(b, e - 1)

\* exact rationals <<numerator, denominator>>, denominator > 0, in lowest
\* terms; they stand for the floats of simulate.py
Rat(n, d) ==
    LET g == GCD(IF n < 0 THEN -n ELSE n, d)
    IN  <<n \div g, d \div g>>

RZero == <<0, 1>>

ROne == <<1, 1>>

RMul(a, b) == Rat(a[1] * b[1], a[2] * b[2])

RSub(a, b) == Rat(a[1] * b[2] - b[1] * a[2], a[2] * b[2])

\* a <= b, compared over the least common denominator
RLe(a, b) ==
    LET l == (a[2] \div GCD(a[2], b[2])) * b[2]
    IN  a[1] * (l \div a[2]) <= b[1] * (l \div b[2])

RMin(a, b) == IF RLe(a, b) THEN a ELSE b

RMax(a, b) == IF RLe(a, b) THEN b ELSE a

\* max(0.0, min(1.0, x))
Clamp01(x) == RMax(RZero, RMin(ROne, x))

-----------------------------------------------------------------------------
(* gate.py : inputs                                                         *)

\* bound: number of *.json files the results directory may hold
MaxDocs == 2

\* reliability 1.0 in tenths: the default of details.get("reliability", 1.0)
DefaultReliability == 10

Endpoints == {"/A", "/B"}

\* endpoint names in lexicographic order (sorted(violations.items()))
EndpointOrder == <<"/A", "/B">>

Pfails == {1, 5}

\* str.lower() on the mode strings that occur
LowerTable ==
    [s \in {"norepl", "NOREPL", "repl", "Repl"} |->
        CASE s = "NOREPL" -> "norepl"
          [] s = "Repl"   -> "repl"
          [] OTHER        -> s]

Lower(s) == IF s \in DOMAIN LowerTable THEN LowerTable[s] ELSE s

\* path.stem of the i-th file in lexicographic order: r1.json, r2.json, ...
FileStem(i) == "r" \o ToString(i)

\* "endpoints" objects of a document: endpoint -> <<reliability>> or <<>>
\* (<<>>: the details object has no "reliability" key)
EndpointMaps ==
    { [e \in {"/A"} |-> <<3>>],
      [e \in {"/A"} |-> <<9>>],
      [e \in {"/A", "/B"} |-> IF e = "/A" THEN <<9>> ELSE <<3>>],
      [e \in {"/A", "/B"} |-> IF e = "/A" THEN <<5>> ELSE <<>>] }

\* where the mode of a document comes from: summary.mode, else the stem of
\* summary.replicas_file, else the stem of the document ("" : key absent)
ModeSources ==
    { [mode |-> "norepl", replicas_stem |-> ""],
      [mode |-> "NOREPL", replicas_stem |-> ""],
      [mode |-> "",       replicas_stem |-> "Repl"],
      [mode |-> "",       replicas_stem |-> ""] }

\* documents json.load accepts and whose summary.pfail is a number
GoodDocs ==
    { [top |-> "object", summary |-> "dict", pfKind |-> "num", pfail |-> p,
       mode |-> m.mode, replicas_stem |-> m.replicas_stem, endpoints |-> em]
      : p \in Pfails, m \in ModeSources, em \in EndpointMaps }

\* documents without a numeric summary.pfail; each carries a violating
\* endpoint entry so that a contribution to a series would show
OddDoc(top, summary, pfKind) ==
    [top |-> top, summary |-> summary, pfKind |-> pfKind, pfail |-> 1,
     mode |-> "norepl", replicas_stem |-> "",
     endpoints |-> [e \in {"/A"} |-> <<0>>]]

OddDocs ==
    { OddDoc("object", "absent", "absent"),
      OddDoc("object", "notdict", "absent"),
      OddDoc("object", "dict", "absent"),
      OddDoc("object", "dict", "null"),
      OddDoc("object", "dict", "str"),
      OddDoc("array", "absent", "absent") }

Docs == GoodDocs \cup OddDocs

Directories == UNION { [S -> Docs] : S \in SUBSET (1..MaxDocs) }

GateArgs ==
    [threshold : {5, 10}, mode : {"any", "mean"},
     results_mode : {"", "NOREPL"},        \* "" : None
     filters : {<<>>, <<" /A ", "">>}]

-----------------------------------------------------------------------------
(* gate.py : _load_results                                                  *)

\* lines 41-44: the lower-cased mode of a document
ModeKey(doc, i) ==
    LET mode == IF doc.mode # "" THEN doc.mode
                ELSE IF doc.replicas_stem # "" THEN doc.replicas_stem
                ELSE FileStem(i)
    IN  Lower(mode)

\* mutant of DictPut: the first document of a key is kept
DictPutKeepFirst(payloads, key, entry) ==
    IF \E k \in 1..Len(payloads) : payloads[k].key = key
    THEN payloads
    ELSE Append(payloads, entry)

\* payloads[key] = data on an insertion-ordered dict: an existing key keeps
\* its position and takes the new value
DictPut(payloads, key, entry) ==
    IF \E k \in 1..Len(payloads) : payloads[k].key = key
    THEN [k \in 1..Len(payloads) |->
            IF payloads[k].key = key THEN entry ELSE payloads[k]]
    ELSE Append(payloads, entry)

\* does the loop body raise on this document?
\*   data.get on a non-object (line 37), float(None) / float("abc") (line 40)
LoadRaises(doc) ==
    \/ doc.top # "object"
    \/ doc.summary = "dict" /\ doc.pfKind \in {"null", "str"}

\* line 38: the documents the loop skips with `continue`
LoadSkips(doc) ==
    doc.top = "object" /\ (doc.summary # "dict" \/ doc.pfKind = "absent")

RECURSIVE LoadFrom(_, _, _)
\* lines 34-45: the loop over sorted(directory.glob("*.json"))
LoadFrom(d, files, payloads) ==
    IF files = <<>> THEN [raised |-> FALSE, payloads |-> payloads]
    ELSE LET i == Head(files)
             doc == d[i]
         IN  IF LoadRaises(doc) THEN [raised |-> TRUE, payloads |-> payloads]
             ELSE IF LoadSkips(doc) THEN LoadFrom(d, Tail(files), payloads)
             ELSE LoadFrom(d, Tail(files),
                      DictPut(payloads, <<doc.pfail, ModeKey(doc, i)>>,
                              [key |-> <<doc.pfail, ModeKey(doc, i)>>,
                               file |-> i, data |-> doc]))

_load_results(d) == LoadFrom(d, SortedSeq(DOMAIN d), <<>>)

-----------------------------------------------------------------------------
(* gate.py : _select_endpoints                                              *)

\* str.strip() on the filter strings that occur
Strip(s) == CASE s = " /A " -> "/A" [] s = "  " -> "" [] OTHER -> s

\* line 55
NormalizedFilters(filters) ==
    {Strip(filters[i]) : i \in 1..Len(filters)} \ {""}

\* line 56 ("" : None)
NormalizedMode(results_mode) ==
    IF results_mode # "" THEN Lower(results_mode) ELSE ""

\* lines 59-64: is the endpoint of this payload entry selected?
Selected(entry, endpoint, filters, results_mode) ==
    /\ NormalizedMode(results_mode) = ""
         \/ entry.key[2] = NormalizedMode(results_mode)
    /\ endpoint \in DOMAIN entry.data.endpoints
    /\ NormalizedFilters(filters) = {}
         \/ endpoint \in NormalizedFilters(filters)

\* line 65
ReliabilityOf(details) ==
    IF details = <<>> THEN DefaultReliability ELSE details[1]

RECURSIVE SeriesOf(_, _, _, _)
\* lines 58-66 seen from one endpoint: its (pfail, reliability) entries in
\* the order the payloads are iterated
SeriesOf(payloads, endpoint, filters, results_mode) ==
    IF payloads = <<>> THEN <<>>
    ELSE LET entry == Head(payloads)
             rest == SeriesOf(Tail(payloads), endpoint, filters, results_mode)
         IN  IF Selected(entry, endpoint, filters, results_mode)
             THEN <<<<entry.key[1],
                      ReliabilityOf(entry.data.endpoints[endpoint])>>>> \o rest
             ELSE rest

_select_endpoints(payloads, filters, results_mode) ==
    LET keys == {e \in Endpoints :
                    SeriesOf(payloads, e, filters, results_mode) # <<>>}
    IN  [e \in keys |-> SeriesOf(payloads, e, filters, results_mode)]

-----------------------------------------------------------------------------
(* gate.py : evaluate_gate                                                  *)

\* the endpoints of a set in name order
SortedByName(S) == SelectSeq(EndpointOrder, LAMBDA e : e \in S)

RECURSIVE InsertByPfail(_, _)
\* insert into a sequence sorted by pfail, after the entries of equal pfail
InsertByPfail(sorted, pair) ==
    IF sorted = <<>> THEN <<pair>>
    ELSE IF pair[1] < Head(sorted)[1] THEN <<pair>> \o sorted
    ELSE <<Head(sorted)>> \o InsertByPfail(Tail(sorted), pair)

RECURSIVE SortByPfailFrom(_, _)
SortByPfailFrom(entries, sorted) ==
    IF entries = <<>> THEN sorted
    ELSE SortByPfailFrom(Tail(entries), InsertByPfail(sorted, Head(entries)))

\* a series left in the order its entries were appended
KeepAppendOrder(entries) == entries

\* line 90: entries.sort(key=lambda pair: pair[0]), a stable sort
SortByPfail(entries) == SortByPfailFrom(entries, <<>>)

\* mutant of EndpointMin: the score at the lowest pfail instead of the minimum
EndpointFirst(entries) == entries[1][2]

\* mutant of EndpointMin: the best score of the series instead of the worst
EndpointMax(entries) ==
    LET S == {entries[i][2] : i \in 1..Len(entries)}
    IN  CHOOSE x \in S : \A y \in S : y <= x

\* line 91: min(reliability for _, reliability in entries)
EndpointMin(entries) == Min({entries[i][2] : i \in 1..Len(entries)})

\* line 94: min(entries, key=lambda pair: pair[1]), the first minimal entry
MinEntry(entries) ==
    LET k == Min({i \in 1..Len(entries) : entries[i][2] = EndpointMin(entries)})
    IN  entries[k]

RECURSIVE FormatViolationsReversed(_, _)
\* the violations listed from the last endpoint name to the first
FormatViolationsReversed(order, violations) ==
    IF order = <<>> THEN <<>>
    ELSE LET e == order[Len(order)]
             rest == FormatViolationsReversed(SubSeq(order, 1, Len(order) - 1),
                                              violations)
         IN  IF e \in DOMAIN violations
             THEN <<<<e, violations[e][1], violations[e][2]>>>> \o rest
             ELSE rest

RECURSIVE FormatViolations(_, _)
\* lines 106-109: one item <<endpoint, pfail, score>> per violation, in
\* endpoint name order
FormatViolations(order, violations) ==
    IF order = <<>> THEN <<>>
    ELSE LET e == Head(order)
             rest == FormatViolations(Tail(order), violations)
         IN  IF e \in DOMAIN violations
             THEN <<<<e, violations[e][1], violations[e][2]>>>> \o rest
             ELSE rest

\* lines 96-103: the verdict and the statistic of the reason
\* (the mean is the pair <<sum, count>>)
Verdict(mode, threshold, aggregate_values, violations) ==
    IF mode = "mean"
    THEN LET sum == SumSeq(aggregate_values)
             n == Len(aggregate_values)
         IN  [passed |-> sum >= threshold * n, kind |-> "mean",
              stat |-> <<sum, n>>]
    ELSE [passed |-> DOMAIN violations = {}, kind |-> "min",
          stat |-> <<Min(Range(aggregate_values)), 1>>]

\* a GateResult; `loaded` records the files whose payload _load_results kept
GateResult(passed, reason, scores, loaded) ==
    [status |-> "returned", passed |-> passed, reason |-> reason,
     scores |-> scores, loaded |-> loaded]

NoReason == [kind |-> "none", stat |-> <<0, 1>>, violations |-> <<>>]

\* mutant of SkippedResult: fail closed when nothing was selected
SkippedFails(scores, loaded) ==
    GateResult(FALSE,
               [kind |-> "skipped", stat |-> <<0, 1>>, violations |-> <<>>],
               scores, loaded)

\* lines 80-85: nothing was selected, the gate is skipped
SkippedResult(scores, loaded) ==
    GateResult(TRUE,
               [kind |-> "skipped", stat |-> <<0, 1>>, violations |-> <<>>],
               scores, loaded)

\* lines 78-112
evaluate_gate(d, a) ==
    LET payloads == _load_results(d)
        loaded == [k \in 1..Len(payloads.payloads) |->
                      payloads.payloads[k].file]
        scores == _select_endpoints(payloads.payloads, a.filters,
                                    a.results_mode)
        sorted == [e \in DOMAIN scores |-> SortByPfail(scores[e])]
        names  == SortedByName(DOMAIN scores)
        aggregate_values ==
            [k \in 1..Len(names) |-> EndpointMin(sorted[names[k]])]
        violations ==
            [e \in {x \in DOMAIN scores : EndpointMin(sorted[x]) < a.threshold}
                |-> MinEntry(sorted[e])]
        v == Verdict(a.mode, a.threshold, aggregate_values, violations)
    IN  IF payloads.raised
        THEN [status |-> "raised", passed |-> FALSE, reason |-> NoReason,
              scores |-> <<>>, loaded |-> <<>>]
        ELSE IF DOMAIN scores = {}
        THEN SkippedResult(scores, loaded)
        ELSE GateResult(v.passed,
                        [kind |-> v.kind, stat |-> v.stat,
                         violations |->
                             FormatViolations(EndpointOrder, violations)],
                        sorted, loaded)

NoGateResult ==
    [status |-> "none", passed |-> FALSE, reason |-> NoReason,
     scores |-> <<>>, loaded |-> <<>>]

-----------------------------------------------------------------------------
(* simulate.py : inputs                                                     *)

\* bound: number of edges in a graph document
MaxEdges == 2

\* bound: length of an explicit entrypoint's service list
MaxPath == 2

\* bound: failure probabilities are the multiples of 1/PfDenom
PfDenom == 4

Services == {"A", "B"}

\* an edge object; "" : the key is absent or empty
Edges == [parent : Services \cup {""}, child : Services \cup {""}]

EdgeLists == UNION { [1..n -> Edges] : n \in 0..MaxEdges }

ServiceLists == UNION { [1..n -> Services] : n \in 0..MaxPath }

NoEntrypoints == [e \in {} |-> <<>>]

\* a parsed graph file: kind is the JSON shape (list, dict, scalar) or
\* "invalid" when the text is not JSON; metadata are the other top-level keys
GraphDoc(kind, dependencies, entrypoints, metadata) ==
    [kind |-> kind, dependencies |-> dependencies,
     entrypoints |-> entrypoints, metadata |-> metadata]

GraphDocs ==
    {GraphDoc("list", deps, NoEntrypoints, {}) : deps \in EdgeLists}
    \cup {GraphDoc("dict", deps, [e \in {"/x"} |-> sl], {"version"}) :
            deps \in {<<>>, <<[parent |-> "A", child |-> "B"]>>},
            sl \in ServiceLists}
    \cup {GraphDoc("dict", <<[parent |-> "A", child |-> "B"]>>,
                   NoEntrypoints, {"version"}),
          GraphDoc("scalar", <<>>, NoEntrypoints, {}),
          GraphDoc("invalid", <<>>, NoEntrypoints, {})}

\* a line of the replica overlay as _load_simple_yaml sees it
Line(kind, key, value) == [kind |-> kind, key |-> key, value |-> value]

\* replica overlay files: the stem of the path and the lines of the text
ReplicaFiles ==
    { [stem |-> "norepl", lines |-> <<>>],
      [stem |-> "NoRepl-base", lines |-> <<Line("comment", "", 0),
                                           Line("pair", "A", 1)>>],
      [stem |-> "replicas", lines |-> <<Line("pair", "A", 2),
                                        Line("blank", "", 0),
                                        Line("pair", "B", 0)>>],
      [stem |-> "replicas", lines |-> <<Line("pair", "B", 1),
                                        Line("pair", "B", 2)>>],
      [stem |-> "replicas", lines |-> <<Line("pair", "A", 2),
                                        Line("nocolon", "", 0)>>],
      [stem |-> "replicas", lines |-> <<Line("nonint", "A", 0)>>] }

\* what the collector's /api/dependencies answers
JaegerPayload == GraphDoc("dict", <<>>, NoEntrypoints, {"data"})

NetOutcomes ==
    { [kind |-> "unreachable", body |-> JaegerPayload],
      [kind |-> "timeout", body |-> JaegerPayload],
      [kind |-> "undecodable", body |-> JaegerPayload],
      [kind |-> "notjson", body |-> GraphDoc("invalid", <<>>, NoEntrypoints, {})],
      [kind |-> "ok", body |-> JaegerPayload],
      [kind |-> "ok", body |-> GraphDoc("list",
                                  <<[parent |-> "B", child |-> "A"]>>,
                                  NoEntrypoints, {})] }

\* --pfail as a rational: below 0, 0, inside (0, 1), 1 and above 1
SimPfails == {<<k, PfDenom>> : k \in {-1, 0, 1, PfDenom, PfDenom + 1}}

\* the output file before the run
Absent == [kind |-> "absent"]

-----------------------------------------------------------------------------
(* simulate.py : _load_simple_yaml                                          *)

RECURSIVE YamlFrom(_, _)
\* lines 37-51: blank lines and comments are skipped, a later pair of a key
\* replaces an earlier one, any other line raises ValueError
YamlFrom(lines, data) ==
    IF lines = <<>> THEN [raised |-> FALSE, data |-> data]
    ELSE LET l == Head(lines)
         IN  CASE l.kind \in {"blank", "comment"} -> YamlFrom(Tail(lines), data)
               [] l.kind = "pair" ->
                    YamlFrom(Tail(lines),
                             [k \in DOMAIN data \cup {l.key} |->
                                 IF k = l.key THEN l.value ELSE data[k]])
               [] OTHER -> [raised |-> TRUE, data |-> data]

_load_simple_yaml(file) == YamlFrom(file.lines, [k \in {} |-> 0])

-----------------------------------------------------------------------------
(* simulate.py : _fetch_graph_from_jaeger                                   *)

\* lines 63-65: decoding the body raises UnicodeDecodeError, which neither
\* except clause catches
FetchRaises(answer) == answer.kind = "undecodable"

\* mutant of RefreshedGraph: the body is saved without the JSON check
RefreshedGraphUnchecked(saved, answer) ==
    IF answer.kind \in {"ok", "notjson"} THEN answer.body ELSE saved

\* lines 63-82: the text of the graph file after the call (the "\n" that
\* line 82 appends is not modelled)
RefreshedGraph(saved, answer) ==
    IF answer.kind = "ok" THEN answer.body ELSE saved

-----------------------------------------------------------------------------
(* simulate.py : _load_graph, _derive_entrypoints                           *)

\* lines 87-97: json.loads raises on invalid text, a scalar is unsupported
GraphRaises(doc) == doc.kind \in {"invalid", "scalar"}

\* lines 88-102
_load_graph(doc) ==
    IF doc.kind = "list"
    THEN [dependencies |-> doc.dependencies, entrypoints |-> NoEntrypoints,
          metadata |-> {}]
    ELSE [dependencies |-> doc.dependencies, entrypoints |-> doc.entrypoints,
          metadata |-> doc.metadata]

\* mutant of AppendNew: the membership test is dropped
AppendAlways(list, x) == Append(list, x)

\* list.append unless already present (lines 117-120)
AppendNew(list, x) == IF x \in Range(list) THEN list ELSE Append(list, x)

RECURSIVE DeriveFrom(_, _)
\* lines 110-120
DeriveFrom(deps, entrypoints) ==
    IF deps = <<>> THEN entrypoints
    ELSE LET dep == Head(deps)
             key == "/" \o dep.parent
             old == IF key \in DOMAIN entrypoints THEN entrypoints[key]
                    ELSE <<>>
         IN  IF dep.parent = "" \/ dep.child = ""
             THEN DeriveFrom(Tail(deps), entrypoints)
             ELSE DeriveFrom(Tail(deps),
                      [k \in DOMAIN entrypoints \cup {key} |->
                          IF k = key
                          THEN AppendNew(AppendNew(old, dep.parent), dep.child)
                          ELSE entrypoints[k]])

_derive_entrypoints(deps) == DeriveFrom(deps, NoEntrypoints)

\* lines 153-155
ResolveEntrypoints(graph_payload) ==
    IF DOMAIN graph_payload.entrypoints # {}
    THEN graph_payload.entrypoints
    ELSE _derive_entrypoints(graph_payload.dependencies)

-----------------------------------------------------------------------------
(* simulate.py : the reliability model                                      *)

\* mutant of _service_reliability: the joint failure probability is returned
JointFailure(pfail, replicas) ==
    LET r == IF replicas < 1 THEN 1 ELSE replicas
        pf == Clamp01(pfail)
    IN  Clamp01(Rat(Pow(pf[1], r), Pow(pf[2], r)))

\* lines 124-129
_service_reliability(pfail, replicas) ==
    LET r == IF replicas < 1 THEN 1 ELSE replicas
        pf == Clamp01(pfail)
        joint_failure == Rat(Pow(pf[1], r), Pow(pf[2], r))
    IN  Clamp01(RSub(ROne, joint_failure))

\* reliabilities.get(service, 1.0)
GetOr1(reliabilities, service) ==
    IF service \in DOMAIN reliabilities THEN reliabilities[service] ELSE ROne

RECURSIVE PathFromAll(_, _, _, _)
\* a fold that multiplies every element, repeated services included
PathFromAll(path_services, reliabilities, seen, score) ==
    IF path_services = <<>> THEN score
    ELSE PathFromAll(Tail(path_services), reliabilities, seen,
                     RMul(score,
                          GetOr1(reliabilities, Head(path_services))))

RECURSIVE PathFrom(_, _, _, _)
\* lines 133-139
PathFrom(path_services, reliabilities, seen, score) ==
    IF path_services = <<>> THEN score
    ELSE LET service == Head(path_services)
         IN  IF service \in seen
             THEN PathFrom(Tail(path_services), reliabilities, seen, score)
             ELSE PathFrom(Tail(path_services), reliabilities,
                           seen \cup {service},
                           RMul(score, GetOr1(reliabilities, service)))

\* lines 132-140
_path_reliability(path_services, reliabilities) ==
    Clamp01(PathFrom(path_services, reliabilities, {}, ROne))

-----------------------------------------------------------------------------
(* simulate.py : run_simulation, lines 159-208                              *)

\* dict.setdefault
SetDefault(map, key, value) ==
    IF key \in DOMAIN map THEN map
    ELSE [k \in DOMAIN map \cup {key} |-> IF k = key THEN value ELSE map[k]]

\* replicas.get(service, 1)
GetOrOne(replicas, service) ==
    IF service \in DOMAIN replicas THEN replicas[service] ELSE 1

\* one side of an edge, lines 163-172
AddService(map, service, pfail, replicas) ==
    IF service = "" THEN map
    ELSE SetDefault(map, service,
             _service_reliability(pfail, GetOrOne(replicas, service)))

RECURSIVE FromEdges(_, _, _, _)
\* lines 160-172
FromEdges(deps, map, pfail, replicas) ==
    IF deps = <<>> THEN map
    ELSE FromEdges(Tail(deps),
             AddService(AddService(map, Head(deps).parent, pfail, replicas),
                        Head(deps).child, pfail, replicas),
             pfail, replicas)

\* lines 159-176: services of the edges first, then those of the overlay only
ServiceReliability(deps, pfail, replicas) ==
    LET edges == FromEdges(deps, [k \in {} |-> ROne], pfail, replicas)
    IN  [svc \in DOMAIN edges \cup DOMAIN replicas |->
            IF svc \in DOMAIN edges THEN edges[svc]
            ELSE _service_reliability(pfail, replicas[svc])]

\* lines 179-185
EndpointResults(entrypoints, service_reliability) ==
    [endpoint \in DOMAIN entrypoints |->
        [services |-> entrypoints[endpoint],
         reliability |->
             _path_reliability(entrypoints[endpoint], service_reliability),
         service_reliability |->
             [svc \in Range(entrypoints[endpoint]) |->
                 GetOr1(service_reliability, svc)]]]

\* str.lower().startswith("norepl") on the overlay stems that occur
StartsWithNorepl(stem) == stem \in {"norepl", "NoRepl-base"}

\* line 187
ModeOf(stem) == IF StartsWithNorepl(stem) THEN "norepl" ELSE "repl"

RECURSIVE RMinOf(_)
RMinOf(S) ==
    IF S = {} THEN ROne
    ELSE LET x == CHOOSE y \in S : TRUE
         IN  IF S = {x} THEN x ELSE RMin(x, RMinOf(S \ {x}))

RECURSIVE RMaxOf(_)
RMaxOf(S) ==
    IF S = {} THEN ROne
    ELSE LET x == CHOOSE y \in S : TRUE
         IN  IF S = {x} THEN x ELSE RMax(x, RMaxOf(S \ {x}))

\* lines 159-204: the result document (the timestamp is left out)
SimulationResult(graph_payload, entrypoints, replicas, stem, pfail) ==
    LET service_reliability ==
            ServiceReliability(graph_payload.dependencies, pfail, replicas)
        endpoint_results == EndpointResults(entrypoints, service_reliability)
        values == {endpoint_results[e].reliability :
                      e \in DOMAIN endpoint_results}
    IN  [kind |-> "result",
         metadata |-> graph_payload.metadata,
         summary |-> [pfail |-> pfail,
                      replicas_file |-> stem,
                      min_reliability |-> RMinOf(values),
                      max_reliability |-> RMaxOf(values),
                      entrypoint_count |-> Cardinality(DOMAIN endpoint_results),
                      mode |-> ModeOf(stem)],
         service_reliability |-> service_reliability,
         endpoints |-> endpoint_results]

-----------------------------------------------------------------------------
(* Values of the variables a specification does not use                     *)

IdleGate ==
    /\ dir = <<>>
    /\ gargs = [threshold |-> 5, mode |-> "any", results_mode |-> "",
                filters |-> <<>>]
    /\ gres = NoGateResult

NoLoc ==
    [graph_payload |-> _load_graph(GraphDoc("list", <<>>, NoEntrypoints, {})),
     entrypoints |-> NoEntrypoints,
     replicas |-> [k \in {} |-> 0]]

IdleSim ==
    /\ fs = [graph |-> GraphDoc("list", <<>>, NoEntrypoints, {}),
             replicas |-> [stem |-> "norepl", lines |-> <<>>],
             out |-> Absent]
    /\ fs0 = fs
    /\ env = [JAEGER_URL |-> ""]
    /\ net = [kind |-> "unreachable", body |-> JaegerPayload]
    /\ sargs = [pfail |-> RZero]
    /\ spc = "idle"
    /\ loc = NoLoc
    /\ slog = <<>>
    /\ sres = Absent

NoValues == [computed |-> FALSE, base |-> RZero, more_pfail |-> RZero,
             more_replicas |-> RZero]

IdleRel ==
    /\ rin = [pfail |-> RZero, pfail2 |-> RZero, replicas |-> 1,
              replicas2 |-> 1]
    /\ rout = NoValues

NoPathValues == [computed |-> FALSE, whole |-> RZero, first_seen |-> RZero]

IdlePath ==
    /\ pin = [path_services |-> <<>>, reliabilities |-> [k \in {} |-> RZero]]
    /\ pout = NoPathValues

IdleMain ==
    /\ argv = [results_mode |-> [given |-> FALSE, value |-> ""],
               mode |-> "any", threshold |-> 5, filters |-> <<>>,
               summary |-> FALSE]
    /\ gexit = "none"
    /\ gsummary = Absent

IdleCollect ==
    /\ cin = [skip_workload |-> TRUE, cooldown |-> 0, lua_script |-> TRUE,
              wrk |-> "ok", jaeger |-> "ok"]
    /\ cpc = "idle"
    /\ clog = <<>>
    /\ cfile = Absent

-----------------------------------------------------------------------------
(* The gate as a state machine: one call of evaluate_gate on a directory    *)

InitGate ==
    /\ dir \in Directories
    /\ gargs \in GateArgs
    /\ gres = NoGateResult
    /\ IdleSim
    /\ IdleRel
    /\ IdlePath
    /\ IdleMain
    /\ IdleCollect

EvaluateGate ==
    /\ gres.status = "none"
    /\ gres' = evaluate_gate(dir, gargs)
    /\ UNCHANGED <<dir, gargs, simvars, relvars>>
    /\ UNCHANGED <<pathvars, mainvars, collectvars>>

NextGate == EvaluateGate

SpecGate == InitGate /\ [][NextGate]_vars

-----------------------------------------------------------------------------
(* The simulator as a state machine: one call of run_simulation             *)

InitSim ==
    /\ IdleGate
    /\ IdleRel
    /\ IdlePath
    /\ IdleMain
    /\ IdleCollect
    /\ fs \in [graph : GraphDocs, replicas : ReplicaFiles, out : {Absent}]
    /\ fs0 = fs
    /\ \/ /\ env = [JAEGER_URL |-> ""]
          /\ net = [kind |-> "unreachable", body |-> JaegerPayload]
       \/ /\ env = [JAEGER_URL |-> "http://jaeger:16686"]
          /\ net \in NetOutcomes
    /\ sargs \in [pfail : SimPfails]
    /\ spc = "validate"
    /\ loc = NoLoc
    /\ slog = <<>>
    /\ sres = Absent

\* mutant of AfterValidate: pfail is not checked
AfterValidateUnchecked(pfail, url) ==
    IF url # "" THEN "refresh" ELSE "load_graph"

\* lines 144-148: where run_simulation goes after its first statement
AfterValidate(pfail, url) ==
    IF pfail[1] < 0 THEN "failed"
    ELSE IF url # "" THEN "refresh" ELSE "load_graph"

\* lines 144-148
Validate ==
    /\ spc = "validate"
    /\ spc' = AfterValidate(sargs.pfail, env.JAEGER_URL)
    /\ UNCHANGED <<fs, fs0, env, net, sargs, loc, slog, sres>>
    /\ UNCHANGED <<gatevars, relvars, pathvars, mainvars, collectvars>>

\* line 149: _fetch_graph_from_jaeger(graph_path, jaeger_url)
Refresh ==
    /\ spc = "refresh"
    /\ fs' = [fs EXCEPT !.graph = RefreshedGraph(@, net)]
    /\ slog' = IF net.kind = "ok" THEN slog \o <<"fetch", "write_graph">>
               ELSE Append(slog, "fetch")
    /\ spc' = IF FetchRaises(net) THEN "failed" ELSE "load_graph"
    /\ UNCHANGED <<fs0, env, net, sargs, loc, sres>>
    /\ UNCHANGED <<gatevars, relvars, pathvars, mainvars, collectvars>>

\* lines 151-155
LoadGraph ==
    /\ spc = "load_graph"
    /\ slog' = Append(slog, "read_graph")
    /\ IF GraphRaises(fs.graph)
       THEN spc' = "failed" /\ UNCHANGED loc
       ELSE /\ spc' = "load_replicas"
            /\ loc' = [loc EXCEPT
                         !.graph_payload = _load_graph(fs.graph),
                         !.entrypoints =
                             ResolveEntrypoints(_load_graph(fs.graph))]
    /\ UNCHANGED <<fs, fs0, env, net, sargs, sres>>
    /\ UNCHANGED <<gatevars, relvars, pathvars, mainvars, collectvars>>

\* line 157
LoadReplicas ==
    /\ spc = "load_replicas"
    /\ slog' = Append(slog, "read_replicas")
    /\ IF _load_simple_yaml(fs.replicas).raised
       THEN spc' = "failed" /\ UNCHANGED loc
       ELSE /\ spc' = "compute"
            /\ loc' = [loc EXCEPT
                         !.replicas = _load_simple_yaml(fs.replicas).data]
    /\ UNCHANGED <<fs, fs0, env, net, sargs, sres>>
    /\ UNCHANGED <<gatevars, relvars, pathvars, mainvars, collectvars>>

\* lines 159-208
ComputeAndWrite ==
    /\ spc = "compute"
    /\ sres' = SimulationResult(loc.graph_payload, loc.entrypoints,
                                loc.replicas, fs.replicas.stem, sargs.pfail)
    /\ fs' = [fs EXCEPT !.out = sres']
    /\ slog' = Append(slog, "write_out")
    /\ spc' = "done"
    /\ UNCHANGED <<fs0, env, net, sargs, loc>>
    /\ UNCHANGED <<gatevars, relvars, pathvars, mainvars, collectvars>>

NextSim ==
    Validate \/ Refresh \/ LoadGraph \/ LoadReplicas \/ ComputeAndWrite

SpecSim == InitSim /\ [][NextSim]_vars

-----------------------------------------------------------------------------
(* The reliability model on its own: _service_reliability at a pair of      *)
(* failure probabilities and a pair of replica counts                       *)

\* bound: largest replica count
MaxReplicas == 10

RelPfails == {<<k, PfDenom>> : k \in -1..PfDenom + 1}

InitRel ==
    /\ IdleGate
    /\ IdleSim
    /\ IdlePath
    /\ IdleMain
    /\ IdleCollect
    /\ rin \in [pfail : RelPfails, pfail2 : RelPfails,
                replicas : 0..MaxReplicas, replicas2 : 0..MaxReplicas]
    /\ rout = NoValues

ApplyReliability ==
    /\ ~ rout.computed
    /\ rout' = [computed |-> TRUE,
                base |-> _service_reliability(rin.pfail, rin.replicas),
                more_pfail |-> _service_reliability(rin.pfail2, rin.replicas),
                more_replicas |->
                    _service_reliability(rin.pfail, rin.replicas2)]
    /\ UNCHANGED <<rin, gatevars, simvars>>
    /\ UNCHANGED <<pathvars, mainvars, collectvars>>

NextRel == ApplyReliability

SpecRel == InitRel /\ [][NextRel]_vars

-----------------------------------------------------------------------------
(* Properties of the gate, stated on the directory and the arguments        *)

HasNumericPfail(doc) ==
    doc.top = "object" /\ doc.summary = "dict" /\ doc.pfKind = "num"

DocKey(d, f) == <<d[f].pfail, ModeKey(d[f], f)>>

\* the files no later file of the same (pfail, mode) key replaces
Survivors(d) ==
    {f \in DOMAIN d :
        /\ HasNumericPfail(d[f])
        /\ ~ \E g \in DOMAIN d :
               g > f /\ HasNumericPfail(d[g]) /\ DocKey(d, g) = DocKey(d, f)}

\* the (document, endpoint) pairs that survive loading and both filters
SelectedPairs(d, a) ==
    {p \in Survivors(d) \X Endpoints :
        /\ p[2] \in DOMAIN d[p[1]].endpoints
        /\ a.results_mode = "" \/ ModeKey(d[p[1]], p[1]) = Lower(a.results_mode)
        /\ NormalizedFilters(a.filters) = {}
             \/ p[2] \in NormalizedFilters(a.filters)}

PairEntry(d, p) == <<d[p[1]].pfail, ReliabilityOf(d[p[1]].endpoints[p[2]])>>

Count(seq, x) == Cardinality({i \in 1..Len(seq) : seq[i] = x})

\* C1: in mode "any" with at least one selected endpoint, the gate passes
\* iff no selected (document, endpoint) entry is below the threshold, so one
\* entry below the threshold in any selected document makes it fail
C1_AnyPassIffNoViolation ==
    (/\ gres.status = "returned"
     /\ gargs.mode = "any"
     /\ SelectedPairs(dir, gargs) # {})
    => (gres.passed <=>
          \A p \in SelectedPairs(dir, gargs) :
              PairEntry(dir, p)[2] >= gargs.threshold)

\* an endpoint with one entry at or above and one entry below the threshold
C1_Witness ==
    /\ gres.status = "returned"
    /\ gargs.mode = "any"
    /\ ~ gres.passed
    /\ \E e \in DOMAIN gres.scores :
          /\ Len(gres.scores[e]) = 2
          /\ gres.scores[e][1][2] >= gargs.threshold
          /\ gres.scores[e][2][2] < gargs.threshold

\* the scenario of C2: two documents of distinct keys, /A at 0.9 and 0.3,
\* mode "mean", threshold 0.5
C2_Scenario ==
    /\ gres.status = "returned"
    /\ gargs.mode = "mean"
    /\ gargs.threshold = 5
    /\ Cardinality(DOMAIN dir) = 2
    /\ \A f \in DOMAIN dir :
          HasNumericPfail(dir[f]) /\ "/A" \in DOMAIN dir[f].endpoints
    /\ \A f, g \in DOMAIN dir : f # g => DocKey(dir, f) # DocKey(dir, g)
    /\ {ReliabilityOf(dir[f].endpoints["/A"]) : f \in DOMAIN dir} = {9, 3}

\* both documents are selected and /A is the only selected endpoint
C2_OnlyA ==
    /\ Cardinality(SelectedPairs(dir, gargs)) = 2
    /\ \A p \in SelectedPairs(dir, gargs) : p[2] = "/A"

\* C2 as stated: in the scenario the aggregate mean is 0.6 and the gate passes
C2_MeanOfScenarioIsSixTenths ==
    C2_Scenario =>
        /\ gres.passed
        /\ gres.reason.stat[1] = 6 * gres.reason.stat[2]

\* C2 (amended): in the scenario, with both documents selected and /A the
\* only selected endpoint, the aggregate of /A is its minimum 0.3, the mean
\* is 0.3, the gate fails and cites /A
C2_MeanOfScenarioIsMinimum ==
    (C2_Scenario /\ C2_OnlyA) =>
        /\ ~ gres.passed
        /\ gres.reason.stat = <<3, 1>>
        /\ Len(gres.reason.violations) = 1
        /\ gres.reason.violations[1][1] = "/A"
        /\ gres.reason.violations[1][3] = 3

C2_Witness == C2_Scenario /\ C2_OnlyA /\ gres.reason.kind = "mean"

\* C3: when no (document, endpoint) pair survives loading and the filters,
\* the gate returns passed=True with empty scores and a "skipped" reason;
\* a failing verdict needs at least one selected pair
C3_FailOpen ==
    gres.status = "returned" =>
        /\ SelectedPairs(dir, gargs) = {} =>
              /\ gres.passed
              /\ DOMAIN gres.scores = {}
              /\ gres.reason.kind = "skipped"
        /\ ~ gres.passed => SelectedPairs(dir, gargs) # {}

\* a directory whose documents are all excluded by the filters
C3_Witness ==
    /\ gres.status = "returned"
    /\ gres.reason.kind = "skipped"
    /\ Survivors(dir) # {}
    /\ SelectedPairs(dir, gargs) = {}
    /\ \E f \in Survivors(dir) : \E e \in DOMAIN dir[f].endpoints :
          ReliabilityOf(dir[f].endpoints[e]) < gargs.threshold

\* C4: of the documents that derive one (pfail, mode) key only the last in
\* scan order is loaded; every series holds exactly the entries of the
\* loaded and selected documents, one per key
C4_LastWriterWins ==
    gres.status = "returned" =>
        /\ Range(gres.loaded) = Survivors(dir)
        /\ \A e \in Endpoints :
              LET from == {p \in SelectedPairs(dir, gargs) : p[2] = e}
                  series == IF e \in DOMAIN gres.scores
                            THEN gres.scores[e] ELSE <<>>
              IN  /\ Len(series) =
                        Cardinality({DocKey(dir, p[1]) : p \in from})
                  /\ \A i \in 1..Len(series) :
                        Count(series, series[i]) =
                            Cardinality({p \in from :
                                            PairEntry(dir, p) = series[i]})

\* two selected documents collide on a key and disagree on /A
C4_Witness ==
    /\ gres.status = "returned"
    /\ \E f, g \in DOMAIN dir :
          /\ f < g
          /\ HasNumericPfail(dir[f]) /\ HasNumericPfail(dir[g])
          /\ DocKey(dir, f) = DocKey(dir, g)
          /\ <<g, "/A">> \in SelectedPairs(dir, gargs)
          /\ "/A" \in DOMAIN dir[f].endpoints
          /\ dir[f].endpoints["/A"] # dir[g].endpoints["/A"]
          /\ dir[f].mode # dir[g].mode

\* the directory without the documents that lack a numeric summary.pfail
NumericOnly(d) ==
    [f \in {x \in DOMAIN d : HasNumericPfail(d[x])} |-> d[f]]

\* C5: a JSON object lacking a numeric summary.pfail (summary absent or not
\* an object, pfail absent, null or a non-numeric string) is skipped without
\* raising, and the remaining documents are loaded and evaluated
C5_SkipsNonNumericPfail ==
    (/\ gres.status # "none"
     /\ \A f \in DOMAIN dir : dir[f].top = "object")
    => /\ gres.status = "returned"
       /\ gres = evaluate_gate(NumericOnly(dir), gargs)

-----------------------------------------------------------------------------
(* Properties of run_simulation                                             *)

Finished == spc \in {"done", "failed"}

RefreshFailures == {"unreachable", "timeout", "notjson", "undecodable"}

\* C6: with pfail < 0 the run fails at its first statement: no request is
\* sent (even with JAEGER_URL set), no file is read, no file is written
C6_NegativePfailRejectedFirst ==
    sargs.pfail[1] < 0 =>
        /\ spc \in {"validate", "failed"}
        /\ slog = <<>>
        /\ fs = fs0
        /\ sres = Absent

C6_Witness ==
    /\ sargs.pfail[1] < 0
    /\ spc = "failed"
    /\ env.JAEGER_URL # ""
    /\ net.kind = "ok"
    /\ net.body # fs0.graph

NoDuplicates(list) ==
    \A i, j \in 1..Len(list) : list[i] = list[j] => i = j

RECURSIVE FirstSeen(_)
\* a list without the later occurrences of its elements
FirstSeen(list) ==
    IF list = <<>> THEN <<>>
    ELSE LET front == FirstSeen(SubSeq(list, 1, Len(list) - 1))
             last == list[Len(list)]
         IN  IF last \in Range(front) THEN front ELSE Append(front, last)

RECURSIVE Mentions(_, _)
\* the services the edges of one parent name, in edge order
Mentions(deps, parent) ==
    IF deps = <<>> THEN <<>>
    ELSE IF Head(deps).parent = parent /\ Head(deps).child # ""
         THEN <<parent, Head(deps).child>> \o Mentions(Tail(deps), parent)
         ELSE Mentions(Tail(deps), parent)

\* the run used the explicit entrypoints map of the graph it loaded
Explicit == DOMAIN loc.graph_payload.entrypoints # {}

\* C7 as stated: every services list of a result is free of duplicates,
\* also when it comes from the explicit entrypoints map
C7_ServicesNeverRepeat ==
    spc = "done" =>
        \A e \in DOMAIN sres.endpoints :
            NoDuplicates(sres.endpoints[e].services)

\* C7 (amended): derived endpoints list the services of their edges once,
\* in first-seen order; explicit entrypoints are copied verbatim
C7_DerivedUniqueExplicitVerbatim ==
    spc = "done" =>
        IF Explicit
        THEN \A e \in DOMAIN sres.endpoints :
                sres.endpoints[e].services = loc.graph_payload.entrypoints[e]
        ELSE /\ DOMAIN sres.endpoints =
                   {"/" \o d.parent : d \in
                       {x \in Range(loc.graph_payload.dependencies) :
                           x.parent # "" /\ x.child # ""}}
             /\ \A p \in Services :
                   ("/" \o p) \in DOMAIN sres.endpoints =>
                      LET services == sres.endpoints["/" \o p].services
                      IN  /\ NoDuplicates(services)
                          /\ services = FirstSeen(
                                 Mentions(loc.graph_payload.dependencies, p))

\* a derived endpoint whose edges name a service twice
C7_Witness ==
    /\ spc = "done"
    /\ ~ Explicit
    /\ \E p \in Services :
          /\ ("/" \o p) \in DOMAIN sres.endpoints
          /\ ~ NoDuplicates(Mentions(loc.graph_payload.dependencies, p))
          /\ Len(sres.endpoints["/" \o p].services) = 2

\* C8 as stated: after any run the graph file and the overlay file are as
\* before, and only the output document was written
C8_InputsNeverModified ==
    Finished =>
        /\ fs.graph = fs0.graph
        /\ fs.replicas = fs0.replicas
        /\ \A i \in 1..Len(slog) :
              slog[i] \in {"fetch", "read_graph", "read_replicas", "write_out"}

\* the refresh request was sent and answered with valid JSON
RefreshSucceeds ==
    sargs.pfail[1] >= 0 /\ env.JAEGER_URL # "" /\ net.kind = "ok"

\* C8 (amended): the overlay file is never modified; the graph file is
\* replaced by the collector's answer when the refresh succeeds and is
\* unchanged otherwise; besides that only the output document is written
C8_OnlyRefreshModifiesGraph ==
    Finished =>
        /\ fs.replicas = fs0.replicas
        /\ fs.graph = IF RefreshSucceeds THEN net.body ELSE fs0.graph
        /\ "write_graph" \in Range(slog) <=> RefreshSucceeds
        /\ fs.out # Absent <=> spc = "done"

\* a refresh that changed the graph file, in a completed and in a failed run
C8_Witness ==
    /\ spc = "failed"
    /\ RefreshSucceeds
    /\ fs.graph # fs0.graph
    /\ ~ GraphRaises(fs.graph)

\* the run of the same inputs with JAEGER_URL unset
Offline ==
    SimulationResult(_load_graph(fs0.graph),
                     ResolveEntrypoints(_load_graph(fs0.graph)),
                     _load_simple_yaml(fs0.replicas).data,
                     fs0.replicas.stem, sargs.pfail)

\* valid inputs: without the refresh the run would complete
InputsValid ==
    /\ sargs.pfail[1] >= 0
    /\ ~ GraphRaises(fs0.graph)
    /\ ~ _load_simple_yaml(fs0.replicas).raised

\* C9: when JAEGER_URL is set and the refresh fails, the graph file is left
\* unchanged and the run completes on the saved graph and writes its result
C9_RefreshFailureNeverFatal ==
    (/\ Finished
     /\ InputsValid
     /\ env.JAEGER_URL # ""
     /\ net.kind \in RefreshFailures)
    => /\ spc = "done"
       /\ fs.graph = fs0.graph
       /\ fs.out = Offline
       /\ sres = Offline

\* the failures the two except clauses catch are not fatal
C9_CaughtFailuresNotFatal ==
    (/\ Finished
     /\ InputsValid
     /\ env.JAEGER_URL # ""
     /\ net.kind \in {"unreachable", "timeout", "notjson"})
    => /\ spc = "done"
       /\ fs.graph = fs0.graph
       /\ fs.out = Offline
       /\ sres = Offline

-----------------------------------------------------------------------------
(* Properties of the reliability model                                      *)

InUnit(x) == RLe(RZero, x) /\ RLe(x, ROne)

-----------------------------------------------------------------------------
(* _path_reliability on its own: one call on a sequence of services and one *)
(* on the same sequence with the repeated services removed                  *)

\* bound: longest sequence of services
MaxPathLen == 3

\* "C" never has an entry in the reliability map
PathNames == Services \cup {"C"}

PathValues == {<<k, PfDenom>> : k \in 0..PfDenom + 1}

PathLists == UNION { [1..n -> PathNames] : n \in 0..MaxPathLen }

ReliabilityMaps == UNION { [S -> PathValues] : S \in SUBSET Services }

InitPath ==
    /\ IdleGate
    /\ IdleSim
    /\ IdleRel
    /\ IdleMain
    /\ IdleCollect
    /\ pin \in [path_services : PathLists, reliabilities : ReliabilityMaps]
    /\ pout = NoPathValues

ApplyPath ==
    /\ ~ pout.computed
    /\ pout' = [computed |-> TRUE,
                whole |-> _path_reliability(pin.path_services,
                                            pin.reliabilities),
                first_seen |->
                    _path_reliability(FirstSeen(pin.path_services),
                                      pin.reliabilities)]
    /\ UNCHANGED <<pin, gatevars, simvars, relvars, mainvars, collectvars>>

NextPath == ApplyPath

SpecPath == InitPath /\ [][NextPath]_vars

REq(a, b) == RLe(a, b) /\ RLe(b, a)

RECURSIVE ProductOver(_, _)
\* the product of the reliabilities of a set of services
ProductOver(services, reliabilities) ==
    IF services = {} THEN ROne
    ELSE LET service == CHOOSE x \in services : TRUE
         IN  RMul(GetOr1(reliabilities, service),
                  ProductOver(services \ {service}, reliabilities))

\* C11: the reliability of a sequence of services equals the reliability of
\* the sequence with every occurrence of a service but the first removed,
\* and both are the clamped product over the distinct services, a service
\* without an entry in the map counting as 1.
C11_DuplicatesIgnored ==
    pout.computed =>
        /\ REq(pout.whole, pout.first_seen)
        /\ REq(pout.whole,
               Clamp01(ProductOver(Range(pin.path_services),
                                   pin.reliabilities)))

\* a sequence that repeats a service whose reliability is strictly between
\* 0 and 1 and also names a service the map does not have
C11_Witness ==
    /\ pout.computed
    /\ Len(pin.path_services) = 3
    /\ pin.path_services[1] = pin.path_services[3]
    /\ pin.path_services[1] \in DOMAIN pin.reliabilities
    /\ LET r == pin.reliabilities[pin.path_services[1]]
       IN  ~ RLe(r, RZero) /\ ~ RLe(ROne, r)
    /\ pin.path_services[2] \notin DOMAIN pin.reliabilities
    /\ FirstSeen(pin.path_services)
          = <<pin.path_services[1], pin.path_services[2]>>

-----------------------------------------------------------------------------
(* Properties of the violation report                                       *)

\* the series of an endpoint in the order the document scan appended it
OriginalSeries(e) ==
    _select_endpoints(_load_results(dir).payloads, gargs.filters,
                      gargs.results_mode)[e]

\* the entries of the selected (document, endpoint) pairs of an endpoint
EntriesOf(e) ==
    {PairEntry(dir, p) : p \in {q \in SelectedPairs(dir, gargs) : q[2] = e}}

\* the first entry of a series that has the lowest reliability
FirstMinimal(series) ==
    LET low == {i \in 1..Len(series) :
                   \A j \in 1..Len(series) : series[i][2] <= series[j][2]}
    IN  series[CHOOSE i \in low : \A j \in low : i <= j]

Reported == {gres.reason.violations[k] :
                k \in 1..Len(gres.reason.violations)}

\* C12 as stated: the (pfail, score) reported for a violating endpoint is
\* the entry of lowest reliability of its series, a tie going to the first
\* such entry in the order the entries were appended
C12_TieByAppendOrder ==
    gres.status = "returned" =>
        \A v \in Reported :
            <<v[2], v[3]>> = FirstMinimal(OriginalSeries(v[1]))

\* C12 (amended): the (pfail, score) reported for a violating endpoint is an
\* entry of lowest reliability of its series, and among the entries that tie
\* on that reliability it is the one of lowest pfail, the first of them in
\* the series sorted by pfail
C12_TieByLowestPfail ==
    gres.status = "returned" =>
        \A v \in Reported :
            /\ <<v[2], v[3]>> \in EntriesOf(v[1])
            /\ \A x \in EntriesOf(v[1]) :
                   v[3] < x[2] \/ (v[3] = x[2] /\ v[2] <= x[1])

\* a reported endpoint whose series holds its lowest reliability twice, the
\* entry appended first having the higher pfail
C12_Witness ==
    /\ gres.status = "returned"
    /\ \E v \in Reported :
          LET series == OriginalSeries(v[1])
          IN  \E i, j \in 1..Len(series) :
                /\ i < j
                /\ series[i][2] = v[3]
                /\ series[j][2] = v[3]
                /\ series[j][1] < series[i][1]
                /\ v[2] = series[j][1]

\* the selected endpoints whose lowest reliability is below the threshold
BelowThreshold ==
    {e \in Endpoints : \E x \in EntriesOf(e) : x[2] < gargs.threshold}

\* the position of an endpoint name in the order of names
NameRank(e) == CHOOSE k \in 1..Len(EndpointOrder) : EndpointOrder[k] = e

\* C13: in both modes the reason carries the list of violations exactly when
\* some selected endpoint is below the threshold; the list names each such
\* endpoint once and no other, in endpoint name order, whatever the verdict
C13_ViolationsListed ==
    gres.status = "returned" =>
        LET listed == gres.reason.violations
        IN  /\ {listed[k][1] : k \in 1..Len(listed)} = BelowThreshold
            /\ Len(listed) = Cardinality(BelowThreshold)
            /\ \A i, j \in 1..Len(listed) :
                   i < j => NameRank(listed[i][1]) < NameRank(listed[j][1])

\* mode "mean" passes although one of two selected endpoints is below the
\* threshold, and the reason still lists that endpoint
C13_Witness ==
    /\ gres.status = "returned"
    /\ gargs.mode = "mean"
    /\ gres.passed
    /\ gres.reason.kind = "mean"
    /\ Len(gres.reason.violations) = 1
    /\ gres.reason.violations[1][1] \in BelowThreshold
    /\ DOMAIN gres.scores = Endpoints

-----------------------------------------------------------------------------
(* dependency_collect.py : main, lines 207-246, as a state machine          *)

\* what subprocess.run(cmd, check=True) does, lines 72-81
WrkOutcomes == {"ok",                 \* exit status 0
                "not_found",          \* FileNotFoundError
                "exit_nonzero",       \* CalledProcessError
                "not_executable"}     \* PermissionError

\* the outcomes of run_wrk that lines 74-81 turn into the domain error
WrkWrapped == {"not_found", "exit_nonzero"}

\* what the trace collector does to the request of lines 96-103
JaegerOutcomes == {"ok",              \* HTTP 200, a JSON document
                   "refused",         \* URLError
                   "http_500",        \* HTTPError, a URLError
                   "http_204",        \* a response whose status is not 200
                   "not_json",        \* HTTP 200, body is not JSON
                   "no_answer",       \* TimeoutError waiting for the response
                   "undecodable"}     \* HTTP 200, body is not in the charset

\* the outcomes of the fetch that lines 96-114 turn into the domain error
JaegerWrapped == {"refused", "http_500", "http_204", "not_json"}

\* --cooldown, seconds (type float)
Cooldowns == {-1, 0, 15}

CollectArgs ==
    [skip_workload : BOOLEAN, cooldown : Cooldowns, lua_script : BOOLEAN,
     output : {"writable", "read_only"},
     wrk : WrkOutcomes, jaeger : JaegerOutcomes]

InitCollect ==
    /\ IdleGate
    /\ IdleSim
    /\ IdleRel
    /\ IdlePath
    /\ IdleMain
    /\ cin \in CollectArgs
    /\ cpc = "start"
    /\ clog = <<>>
    /\ cfile = Absent

NotCollect == UNCHANGED <<gatevars, simvars, relvars, pathvars, mainvars>>

\* lines 208-215: parse_args, then the workload script must be a file
CheckScript ==
    /\ cpc = "start"
    /\ cpc' = IF ~ cin.lua_script THEN "DependencyCollectionError"
              ELSE IF ~ cin.skip_workload THEN "workload"
              ELSE "fetch"
    /\ UNCHANGED <<cin, clog, cfile>>
    /\ NotCollect

\* a step that raises inside run_wrk, lines 72-81
WrkEnds(outcome) ==
    IF outcome \in WrkWrapped THEN "DependencyCollectionError"
    ELSE "OtherError"

\* lines 215-228: run_wrk
RunWorkload ==
    /\ cpc = "workload"
    /\ clog' = Append(clog, "workload")
    /\ cpc' = IF cin.wrk # "ok" THEN WrkEnds(cin.wrk)
              ELSE IF cin.cooldown > 0 THEN "cooldown"
              ELSE "fetch"
    /\ UNCHANGED <<cin, cfile>>
    /\ NotCollect

\* lines 229-233: time.sleep(args.cooldown)
Cooldown ==
    /\ cpc = "cooldown"
    /\ clog' = Append(clog, "cooldown")
    /\ cpc' = "fetch"
    /\ UNCHANGED <<cin, cfile>>
    /\ NotCollect

\* a step that raises inside fetch_dependencies, lines 96-114
FetchEnds(outcome) ==
    IF outcome \in JaegerWrapped THEN "DependencyCollectionError"
    ELSE "OtherError"

\* lines 235-243: fetch_dependencies
FetchDependencies ==
    /\ cpc = "fetch"
    /\ clog' = Append(clog, "fetch")
    /\ cpc' = IF cin.jaeger = "ok" THEN "save" ELSE FetchEnds(cin.jaeger)
    /\ UNCHANGED <<cin, cfile>>
    /\ NotCollect

\* lines 244-246 and 117-119: save_dependencies, return 0
SaveDependencies ==
    /\ cpc = "save"
    /\ clog' = Append(clog, "save")
    /\ IF cin.output = "writable"
       THEN cfile' = [kind |-> "deps"] /\ cpc' = "returned"
       ELSE cfile' = cfile /\ cpc' = "OtherError"
    /\ UNCHANGED cin
    /\ NotCollect

NextCollect ==
    \/ CheckScript
    \/ RunWorkload
    \/ Cooldown
    \/ FetchDependencies
    \/ SaveDependencies

SpecCollect == InitCollect /\ [][NextCollect]_vars

-----------------------------------------------------------------------------
(* Properties of the collector                                              *)

Attempted(step) == \E k \in 1..Len(clog) : clog[k] = step

StepOrder == <<"workload", "cooldown", "fetch", "save">>

StepRank(step) == CHOOSE k \in 1..Len(StepOrder) : StepOrder[k] = step

\* the steps attempted so far are in the order workload, cooldown, fetch,
\* save and none was attempted twice
InOrderOnce ==
    \A i, j \in 1..Len(clog) : i < j => StepRank(clog[i]) < StepRank(clog[j])

\* the collector is queried after a successful workload and its cooldown, or
\* without a workload when --skip-workload is given
FetchAfterWorkload ==
    Attempted("fetch") =>
        IF cin.skip_workload
        THEN ~ Attempted("workload") /\ ~ Attempted("cooldown")
        ELSE /\ Attempted("workload")
             /\ cin.wrk = "ok"
             /\ cin.cooldown > 0 => Attempted("cooldown")

\* the output file exists only after a fetch that returned 200 and JSON
WriteAfterFetch ==
    cfile # Absent => Attempted("fetch") /\ cin.jaeger = "ok"

LastStep == clog[Len(clog)]

WorkloadFailed ==
    clog # <<>> /\ LastStep = "workload" /\ cpc # "workload"
        /\ cin.wrk # "ok"

FetchFailed ==
    clog # <<>> /\ LastStep = "fetch" /\ cpc # "fetch" /\ cin.jaeger # "ok"

\* after a failed workload or fetch the run has ended: nothing is retried,
\* no later step is attempted, the output file is not written
FailureEndsRun ==
    /\ (\E k \in 1..Len(clog) : clog[k] = "workload") /\ cin.wrk # "ok"
          => LastStep = "workload"
    /\ (\E k \in 1..Len(clog) : clog[k] = "fetch") /\ cin.jaeger # "ok"
          => LastStep = "fetch"
    /\ WorkloadFailed \/ FetchFailed
          => cpc \in {"DependencyCollectionError", "OtherError"}
               /\ cfile = Absent

\* C14 as stated: the steps run in the order workload, cooldown, fetch, save,
\* each at most once; the fetch follows a successful workload and cooldown
\* (or no workload with --skip-workload); the file is written only after a
\* fetch that returned 200 and JSON; a failed workload or fetch ends the run
\* with a DependencyCollectionError, without retry and without the file
C14_SequentialFailFast ==
    /\ InOrderOnce
    /\ FetchAfterWorkload
    /\ WriteAfterFetch
    /\ FailureEndsRun
    /\ WorkloadFailed \/ FetchFailed => cpc = "DependencyCollectionError"

\* the part of C14 that holds: order, at most once, the file only after a
\* good fetch, a failure ends the run with an exception and without the file
C14_OrderAndNoRetry ==
    /\ InOrderOnce
    /\ FetchAfterWorkload
    /\ WriteAfterFetch
    /\ FailureEndsRun

\* a full run: workload, cooldown, fetch and save, the file written
C14_FullRun ==
    /\ cpc = "returned"
    /\ clog = StepOrder
    /\ cfile # Absent

-----------------------------------------------------------------------------
(* gate.py : parse_args and main, lines 115-147, as a state machine         *)

\* a command line without --results-mode evaluates every mode together
NoDefaultResultsMode == ""

\* line 120: default="norepl"
DefaultResultsMode == "norepl"

\* --filters as its comma separated pieces, with --summary or without:
\* neither option on the command line, or both
MainOptions ==
    { [filters |-> <<"">>, summary |-> FALSE],
      [filters |-> <<" /A ", "">>, summary |-> TRUE] }

\* the command lines: --results-mode absent or given with a value, --mode,
\* --threshold, --filters and --summary
MainArgs ==
    { [results_mode |-> rm, mode |-> m, threshold |-> 5,
       filters |-> o.filters, summary |-> o.summary]
      : rm \in {[given |-> FALSE, value |-> ""]}
                 \cup [given : {TRUE}, value : {"", "  ", "NOREPL"}],
        m \in {"any", "mean"},
        o \in MainOptions }

\* lines 115-123: the namespace parse_args returns
parse_args(a) ==
    [results_mode |-> IF a.results_mode.given THEN a.results_mode.value
                      ELSE DefaultResultsMode,
     mode |-> a.mode, threshold |-> a.threshold, filters |-> a.filters,
     summary |-> a.summary]

\* lines 128-129: the arguments main hands to evaluate_gate ("" : None)
MainGateArgs(a) ==
    LET args == parse_args(a)
    IN  [threshold |-> args.threshold, mode |-> args.mode,
         results_mode |-> Lower(Strip(args.results_mode)),
         filters |-> SelectSeq(args.filters, LAMBDA flt : flt # "")]

\* lines 132-140: the summary payload
SummaryPayload(a, result) ==
    [kind |-> "summary", threshold |-> a.threshold, mode |-> a.mode,
     results_mode |-> a.results_mode, filters |-> a.filters,
     passed |-> result.passed, reason |-> result.reason,
     endpoints |-> result.scores]

InitMain ==
    /\ dir \in Directories
    /\ gargs = [threshold |-> 5, mode |-> "any", results_mode |-> "",
                filters |-> <<>>]
    /\ gres = NoGateResult
    /\ argv \in MainArgs
    /\ gexit = "none"
    /\ gsummary = Absent
    /\ IdleSim
    /\ IdleRel
    /\ IdlePath
    /\ IdleCollect

\* lines 126-147: one run of main; an exception of evaluate_gate leaves main
Main ==
    /\ gexit = "none"
    /\ LET a == MainGateArgs(argv)
           result == evaluate_gate(dir, a)
       IN  /\ gargs' = a
           /\ gres' = result
           /\ IF result.status = "raised"
              THEN gexit' = "raised" /\ gsummary' = gsummary
              ELSE /\ gsummary' = IF argv.summary
                                  THEN SummaryPayload(a, result)
                                  ELSE gsummary
                   /\ gexit' = IF result.passed THEN "0" ELSE "1"
    /\ UNCHANGED <<dir, argv, simvars, relvars, pathvars, collectvars>>

NextMain == Main

SpecMain == InitMain /\ [][NextMain]_vars

-----------------------------------------------------------------------------
(* Properties of the gate command line                                      *)

\* the values of --results-mode that are empty or only white space
Blank == {"", "  "}

\* the documents whose derived mode is not "norepl"
OtherModeFiles ==
    {f \in DOMAIN dir :
        HasNumericPfail(dir[f]) /\ ModeKey(dir[f], f) # "norepl"}

\* the directory without the documents of another mode
NoreplOnly == [f \in DOMAIN dir \ OtherModeFiles |-> dir[f]]

\* the selected pairs when no mode filter applies
AnyModePairs == SelectedPairs(dir, [gargs EXCEPT !.results_mode = ""])

\* the entries an endpoint gets from the documents of a set of files
EntriesFrom(e, files) ==
    {PairEntry(dir, p) :
        p \in {q \in AnyModePairs : q[2] = e /\ q[1] \in files}}

SeriesEntries(e) ==
    IF e \in DOMAIN gres.scores THEN Range(gres.scores[e]) ELSE {}

\* C15: a run of main without --results-mode evaluates with the mode filter
\* "norepl": documents of any other mode add nothing to a series and the
\* outcome, exit status included, is the one of the directory without them;
\* the filter is off exactly when --results-mode is given and is empty or
\* white space, and then every series holds the entries of all modes
C15_DefaultModeFilter ==
    gexit # "none" =>
        /\ gexit = "1" <=> (gres.status = "returned" /\ ~ gres.passed)
        /\ gargs.results_mode = ""
              <=> (argv.results_mode.given
                     /\ argv.results_mode.value \in Blank)
        /\ ~ argv.results_mode.given =>
              /\ gargs.results_mode = "norepl"
              /\ gres.status = "returned" =>
                     \A e \in Endpoints :
                         SeriesEntries(e)
                           = EntriesFrom(e, DOMAIN dir \ OtherModeFiles)
              /\ LET alone == evaluate_gate(NoreplOnly, gargs)
                 IN  /\ alone.status = gres.status
                     /\ alone.passed = gres.passed
                     /\ alone.reason = gres.reason
                     /\ alone.scores = gres.scores
        /\ gargs.results_mode = "" /\ gres.status = "returned" =>
              \A e \in Endpoints :
                  SeriesEntries(e) = EntriesFrom(e, DOMAIN dir)

\* main without --results-mode exits with status 0 on a directory that
\* holds a selected endpoint of mode norepl and a document of another mode
\* with an entry below the threshold
C15_Witness ==
    /\ gexit = "0"
    /\ ~ argv.results_mode.given
    /\ DOMAIN gres.scores # {}
    /\ \E f \in OtherModeFiles :
          \E e \in DOMAIN gres.scores :
              \E x \in EntriesFrom(e, {f}) : x[2] < gargs.threshold
=============================================================================
